---- MODULE Spec2Model ----
(***************************************************************************)
(* State machine of the AuthCard component (src/components/auth-card.tsx). *)
(*                                                                         *)
(* A state is one committed render of the component together with what the *)
(* host owns (pathname, session observation), the backend calls that are   *)
(* still outstanding, and the passive effects React has scheduled for the  *)
(* commit and not yet run.  React runs the scheduled effects before it     *)
(* handles any further event or update, so every other action waits for    *)
(* pendingEffects to be empty.                                             *)
(*                                                                         *)
(* Strings that the code takes apart (pathname, href) are sequences of     *)
(* tokens; a token is "/" or a run of characters without "/".  A nullable  *)
(* value is a sequence of length 0 (null / undefined) or 1.                *)
(***************************************************************************)
EXTENDS Integers, Sequences, FiniteSets, TLC

VARIABLES
    props,          \* the props of the mounted instance (fixed per mount)
    pathname,       \* host path after line 114: <<>> (undefined) or <<path>>
    session,        \* what authClient.useSession() delivers
    email,          \* useState, line 116
    password,       \* useState, line 117
    loading,        \* useState, line 118
    view,           \* useState, line 119
    isMagicLink,    \* useState, line 120
    authToast,      \* useState, line 121: <<>> (null) or <<AuthToastOptions>>
    pendingEffects, \* effects scheduled by the last commit, not yet run
    requests,       \* outstanding authClient.signIn.email calls (awaited)
    calls           \* calls into the host / backend made by the last step:
                    \* navigate(path), toast(description, variant),
                    \* signIn.email(email, password), link = following the
                    \* href of the link component

vars == <<props, pathname, session, email, password, loading, view,
          isMagicLink, authToast, pendingEffects, requests, calls>>

-----------------------------------------------------------------------------
(* Bounds *)

MaxPathLen == 2     \* tokens in a host path the environment may set
MaxRequests == 2    \* cap on outstanding backend calls

-----------------------------------------------------------------------------
(* Constants of the program *)

authViews == <<"login", "signup", "forgot-password", "reset-password", "logout">>

AuthView == {authViews[i] : i \in DOMAIN authViews}

LandingPath == <<"/">>
LoginHref == <<"/", "auth", "/", "login">>
SignupHref == <<"/", "auth", "/", "signup">>
ForgotPasswordHref == <<"/", "forgot-password">>

None == <<>>
Some(x) == <<x>>

-----------------------------------------------------------------------------
(* Input domains *)

PathTokens == {"/", "x"} \cup AuthView

RECURSIVE SeqsUpTo(_, _)
SeqsUpTo(S, n) ==
    IF n = 0 THEN {<<>>}
    ELSE LET shorter == SeqsUpTo(S, n - 1)
         IN shorter \cup {Append(s, t) : s \in shorter, t \in S}

\* every value of pathname of at most MaxPathLen tokens, undefined included
BoundedPaths == {None} \cup {Some(p) : p \in SeqsUpTo(PathTokens, MaxPathLen)}

\* the locations of a host that routes the card: none, the landing page, the
\* two targets of the login/signup cross-link, the target of the
\* forgot-password link, a view without a link to it, a trailing slash
HostPaths ==
    {None, Some(LandingPath), Some(LoginHref), Some(SignupHref),
     Some(ForgotPasswordHref), Some(<<"/", "auth", "/", "logout">>),
     Some(<<"/", "auth", "/", "login", "/">>)}

Emails == {"", "a@b.com"}
Passwords == {"", "x"}
ErrorMessages == {"Invalid credentials"}

SessionKinds == {"pending", "absent", "anonymous", "user"}

\* line 110: the link component is a prop of the host.  DefaultLink is the
\* one of lines 27-33; ForwardingLink is an anchor that passes its props on,
\* (props) => <a {...props}/>; RouterLink is a router's link, which runs the
\* onClick it was given and then navigates by itself to the href it was
\* rendered with
LinkComponents == {"DefaultLink", "ForwardingLink", "RouterLink"}

Props ==
    [initialView : AuthView,
     emailPassword : BOOLEAN,
     magicLink : BOOLEAN,
     startWithMagicLink : BOOLEAN,
     disableRouting : BOOLEAN,
     toast : BOOLEAN,
     LinkComponent : LinkComponents]

\* what the awaited backend call can produce: a result without error, a
\* result whose error has a message, one whose error has none, or a
\* rejection of the promise
Outcomes ==
    {[kind |-> "ok", message |-> ""], [kind |-> "error", message |-> ""],
     [kind |-> "rejected", message |-> ""]}
    \cup {[kind |-> "error", message |-> m] : m \in ErrorMessages}

-----------------------------------------------------------------------------
(* Pure functions *)

\* String.prototype.split("/"): the pieces between the separators, an empty
\* string giving one empty piece
RECURSIVE Split(_)
Split(s) ==
    IF s = <<>> THEN << <<>> >>
    ELSE IF Head(s) = "/" THEN << <<>> >> \o Split(Tail(s))
    ELSE LET rest == Split(Tail(s))
         IN << <<Head(s)>> \o Head(rest) >> \o Tail(rest)

\* Array.prototype.shift() in the place of pop(): the first element
Shift(arr) == arr[1]

\* Array.prototype.pop(): the last element
Pop(arr) == arr[Len(arr)]

\* authViews.includes(path): a string equals a view name exactly when it is
\* the single token of that name
Includes(path) == \E i \in DOMAIN authViews : path = <<authViews[i]>>

\* line 115: data is an object only for a present observation
SessionData(s) ==
    IF s.kind \in {"pending", "absent"} THEN None
    ELSE Some([user |-> [isAnonymous |-> (s.kind = "anonymous")], id |-> s.id])

IsPending(s) == s.kind = "pending"

\* line 120: a mount that only asks for a magic-link start
InitialMagicLinkFromStartOnly(p) == p.startWithMagicLink

\* line 120
InitialMagicLink(p) == p.startWithMagicLink \/ ~p.emailPassword

\* line 339 with the branches exchanged
ToggleTargetSame(v) == IF v = "signup" THEN "signup" ELSE "login"

\* line 339 swapping login and signup and keeping every other view
ToggleTargetLoginSignupOnly(v) ==
    IF v = "signup" THEN "login" ELSE IF v = "login" THEN "signup" ELSE v

\* line 339
ToggleTarget(v) == IF v = "signup" THEN "login" ELSE "signup"

\* lines 345-348
ToggleHref(v) == IF v = "signup" THEN LoginHref ELSE SignupHref

\* lines 27-33 against line 339: whether the link component runs the onClick
\* the footer Button hands to its child
RunsOnClick(lc) == lc # "DefaultLink"

\* lines 339 and 345-348: the hrefs the click on the footer link can lead
\* to.  DefaultLink and RouterLink lead to the href of the render that was
\* clicked.  ForwardingLink runs setView and leaves the navigation to the
\* browser, which follows the href the anchor has when the handlers are
\* done: the one of the new view when the card has been rendered again by
\* then (a click of the mouse or the keyboard, a synchronous commit), the
\* one of the render that was clicked when the commit comes later (a click
\* dispatched by script with the commit in a microtask)
FollowedHref(lc, v) ==
    IF lc = "ForwardingLink"
    THEN {ToggleHref(v), ToggleHref(ToggleTarget(v))}
    ELSE {ToggleHref(v)}

\* line 126: authToast as onSubmit leaves it before the call, had it kept it
SubmitToastKept(t) == t

\* line 126: authToast as onSubmit leaves it before the call
SubmitToast(t) == None

\* line 129 missing: loading as the code after the await leaves it
ResponseLoadingKept(outcome, l) == l

\* line 129: loading as the code after the await leaves it; a rejected
\* promise never gets there
ResponseLoading(outcome, l) ==
    IF outcome.kind = "rejected" THEN l ELSE FALSE

\* lines 131-136 testing error in the place of error?.message
ResponseToastAnyError(outcome, t) ==
    IF outcome.kind = "error"
    THEN Some([description |-> outcome.message, variant |-> "destructive"])
    ELSE t

\* lines 131-136: authToast as the code after the await leaves it
ResponseToast(outcome, t) ==
    IF outcome.kind = "error" /\ outcome.message # ""
    THEN Some([description |-> outcome.message, variant |-> "destructive"])
    ELSE t

-----------------------------------------------------------------------------
(* What the render shows: the disabled attributes *)

SubmitNeverDisabled == FALSE                    \* line 240 without disabled

SubmitDisabled == loading                                       \* line 240

PasswordInputDisabled == isMagicLink                            \* line 232

\* line 294 without the test of the view
MagicLinkButtonDisabledOnAnyView == ~props.magicLink \/ isMagicLink

MagicLinkButtonDisabled ==                                      \* line 294
    view # "login" \/ ~props.magicLink \/ isMagicLink

PasswordButtonDisabled ==                                       \* line 313
    view # "login" \/ ~props.emailPassword \/ ~isMagicLink

InlineAlertRendered == ~props.toast                             \* line 249

InlineAlertShown == InlineAlertRendered /\ authToast # None     \* line 251

-----------------------------------------------------------------------------
(* The effects, each as what it asks for when it runs on a commit *)

\* lines 139-143 without the isAnonymous test
SessionEffectAnyUser(s) ==
    IF SessionData(s) # None
    THEN <<[fn |-> "navigate", arg |-> LandingPath]>>
    ELSE <<>>

\* lines 139-143: the navigate calls of the session effect
SessionEffect(s) ==
    LET data == SessionData(s)
    IN IF data # None /\ ~data[1].user.isAnonymous
       THEN <<[fn |-> "navigate", arg |-> LandingPath]>>
       ELSE <<>>

\* lines 145-152: the view the pathname effect sets, v when it sets none
PathnameEffect(pn, v) ==
    IF pn = None \/ pn[1] = <<>> THEN v
    ELSE LET path == Pop(Split(pn[1]))
         IN IF Includes(path) THEN path[1] ELSE v

\* lines 154-158 without the reset
ViewEffectNoReset(v, magic) == magic

\* lines 154-158: isMagicLink after the view effect ran on a commit of view v
ViewEffect(v, magic) == IF v # "login" THEN FALSE ELSE magic

\* lines 160-164 testing authToast alone
ToastEffectNoSinkTest(t, hasToast) ==
    IF t = None THEN <<>>
    ELSE <<[fn |-> "toast", arg |-> <<t[1].description, t[1].variant>>]>>

\* lines 160-164: the calls of the toast effect
ToastEffect(t, hasToast) ==
    IF t = None \/ ~hasToast THEN <<>>
    ELSE <<[fn |-> "toast", arg |-> <<t[1].description, t[1].variant>>]>>

-----------------------------------------------------------------------------
(* Initial state: the first commit of a mount; every effect is scheduled *)

AllEffects == {"session", "pathname", "view", "toast"}

Mounted(p) ==
    /\ props' = p
    /\ email' = ""
    /\ password' = ""
    /\ loading' = FALSE
    /\ view' = p.initialView
    /\ isMagicLink' = InitialMagicLink(p)
    /\ authToast' = None
    /\ pendingEffects' = AllEffects

Init ==
    /\ props \in Props
    /\ pathname = None
    /\ session = [kind |-> "pending", id |-> 0]
    /\ email = ""
    /\ password = ""
    /\ loading = FALSE
    /\ view = props.initialView
    /\ isMagicLink = InitialMagicLink(props)
    /\ authToast = None
    /\ pendingEffects = AllEffects
    /\ requests = <<>>
    /\ calls = <<>>

Settled == pendingEffects = {}

-----------------------------------------------------------------------------
(* Actions *)

\* React runs the effects of the last commit in the order of their
\* declaration, each on the values of that commit, and then commits the
\* state they set
FlushEffects ==
    /\ pendingEffects # {}
    /\ view' = IF "pathname" \in pendingEffects
               THEN PathnameEffect(pathname, view) ELSE view
    /\ isMagicLink' = IF "view" \in pendingEffects
                      THEN ViewEffect(view, isMagicLink) ELSE isMagicLink
    /\ calls' = (IF "session" \in pendingEffects
                 THEN SessionEffect(session) ELSE <<>>)
                \o (IF "toast" \in pendingEffects
                    THEN ToastEffect(authToast, props.toast) ELSE <<>>)
    /\ pendingEffects' = IF view' # view THEN {"view"} ELSE {}
    /\ UNCHANGED <<props, pathname, session, email, password, loading,
                   authToast, requests>>

\* the page is loaded again or the host mounts the component anew with the
\* same props: a fresh instance; what the old one awaited writes nowhere
Remount ==
    /\ Settled
    /\ Mounted(props)
    /\ requests' = <<>>
    /\ calls' = <<>>
    /\ UNCHANGED <<pathname, session>>

\* a path change that also clears the notification
PathChangeClearsToast(pn) ==
    /\ Settled
    /\ pn # pathname
    /\ pathname' = pn
    /\ authToast' = None
    /\ pendingEffects' =
          IF authToast # None THEN {"pathname", "toast"} ELSE {"pathname"}
    /\ calls' = <<>>
    /\ UNCHANGED <<props, session, email, password, loading, view,
                   isMagicLink, requests>>

\* the host's location changes (lines 100, 114)
PathChange(pn) ==
    /\ Settled
    /\ pn # pathname
    /\ pathname' = pn
    /\ pendingEffects' = {"pathname"}
    /\ calls' = <<>>
    /\ UNCHANGED <<props, session, email, password, loading, view,
                   isMagicLink, authToast, requests>>

\* the session store delivers a new observation (line 115)
SessionTick(kind) ==
    /\ Settled
    /\ session' = [kind |-> kind,
                    id |-> IF kind \in {"pending", "absent"}
                           THEN 0 ELSE 1 - session.id]
    /\ pendingEffects' =
          IF SessionData(session') # SessionData(session)
          THEN {"session"} ELSE {}
    /\ calls' = <<>>
    /\ UNCHANGED <<props, pathname, email, password, loading, view,
                   isMagicLink, authToast, requests>>

\* lines 195-197
EditEmail(v) ==
    /\ Settled
    /\ v # email
    /\ email' = v
    /\ pendingEffects' = {}
    /\ calls' = <<>>
    /\ UNCHANGED <<props, pathname, session, password, loading, view,
                   isMagicLink, authToast, requests>>

\* lines 231-232
EditPassword(v) ==
    /\ Settled
    /\ ~PasswordInputDisabled
    /\ v # password
    /\ password' = v
    /\ pendingEffects' = {}
    /\ calls' = <<>>
    /\ UNCHANGED <<props, pathname, session, email, loading, view,
                   isMagicLink, authToast, requests>>

\* lines 123-128, up to the await.  The form submits only through its
\* enabled submit button (line 240) and with the required email filled in
\* (line 194).
Submit ==
    /\ Settled
    /\ ~SubmitDisabled
    /\ email # ""
    /\ Len(requests) < MaxRequests
    /\ authToast' = SubmitToast(authToast)
    /\ loading' = TRUE
    /\ requests' = Append(requests, [email |-> email, password |-> password])
    /\ calls' = <<[fn |-> "signIn.email", arg |-> <<email, password>>]>>
    /\ pendingEffects' = IF authToast' # authToast THEN {"toast"} ELSE {}
    /\ UNCHANGED <<props, pathname, session, email, password, view,
                   isMagicLink>>

\* lines 128-136, from the await on: the i-th outstanding call settles.  A
\* rejected promise ends onSubmit at the await.
Response(i, outcome) ==
    /\ Settled
    /\ i \in DOMAIN requests
    /\ requests' = SubSeq(requests, 1, i - 1)
                   \o SubSeq(requests, i + 1, Len(requests))
    /\ loading' = ResponseLoading(outcome, loading)
    /\ authToast' = ResponseToast(outcome, authToast)
    /\ pendingEffects' =
          IF ResponseToast(outcome, None) # None THEN {"toast"} ELSE {}
    /\ calls' = <<>>
    /\ UNCHANGED <<props, pathname, session, email, password, view,
                   isMagicLink>>

\* line 293
EnableMagicLink ==
    /\ Settled
    /\ ~MagicLinkButtonDisabled
    /\ isMagicLink' = TRUE
    /\ pendingEffects' = {}
    /\ calls' = <<>>
    /\ UNCHANGED <<props, pathname, session, email, password, loading, view,
                   authToast, requests>>

\* line 312
DisableMagicLink ==
    /\ Settled
    /\ ~PasswordButtonDisabled
    /\ isMagicLink' = FALSE
    /\ pendingEffects' = {}
    /\ calls' = <<>>
    /\ UNCHANGED <<props, pathname, session, email, password, loading, view,
                   authToast, requests>>

\* lines 334-342 with disableRouting: the footer control is a button
ToggleButton ==
    /\ Settled
    /\ props.disableRouting
    /\ view' = ToggleTarget(view)
    /\ pendingEffects' = {"view"}
    /\ calls' = <<>>
    /\ UNCHANGED <<props, pathname, session, email, password, loading,
                   isMagicLink, authToast, requests>>

\* lines 334-353 without disableRouting: the footer control is the link
\* component, given href and the button's onClick.  DefaultLink (lines
\* 27-33) takes href, className and children only, so the click follows the
\* href and nothing else; the other link components also run the onClick of
\* line 339, and the href the click leads to is one of FollowedHref.
ToggleLink ==
    /\ Settled
    /\ ~props.disableRouting
    /\ \E href \in FollowedHref(props.LinkComponent, view) :
          calls' = <<[fn |-> "link", arg |-> href]>>
    /\ view' = IF RunsOnClick(props.LinkComponent)
               THEN ToggleTarget(view) ELSE view
    /\ pendingEffects' = IF view' # view THEN {"view"} ELSE {}
    /\ UNCHANGED <<props, pathname, session, email, password, loading,
                   isMagicLink, authToast, requests>>

-----------------------------------------------------------------------------
(* Specifications *)

Next ==
    \/ FlushEffects
    \/ Remount
    \/ \E pn \in HostPaths : PathChange(pn)
    \/ \E k \in SessionKinds : SessionTick(k)
    \/ \E v \in Emails : EditEmail(v)
    \/ \E v \in Passwords : EditPassword(v)
    \/ Submit
    \/ \E i \in 1..MaxRequests, o \in Outcomes : Response(i, o)
    \/ EnableMagicLink
    \/ DisableMagicLink
    \/ ToggleButton
    \/ ToggleLink

Spec == Init /\ [][Next]_vars

\* the auth flow controller and the view resolver: every operation except
\* the ticks of the session store, which stays pending
NextAuthFlow ==
    \/ FlushEffects
    \/ Remount
    \/ \E pn \in HostPaths : PathChange(pn)
    \/ \E v \in Emails : EditEmail(v)
    \/ \E v \in Passwords : EditPassword(v)
    \/ Submit
    \/ \E i \in 1..MaxRequests, o \in Outcomes : Response(i, o)
    \/ EnableMagicLink
    \/ DisableMagicLink
    \/ ToggleButton
    \/ ToggleLink

SpecAuthFlow == Init /\ [][NextAuthFlow]_vars

\* the session watcher next to the operations that change the view: no
\* field is edited and nothing is submitted
NextSession ==
    \/ FlushEffects
    \/ Remount
    \/ \E pn \in HostPaths : PathChange(pn)
    \/ \E k \in SessionKinds : SessionTick(k)
    \/ EnableMagicLink
    \/ DisableMagicLink
    \/ ToggleButton
    \/ ToggleLink

SpecSession == Init /\ [][NextSession]_vars

\* the view resolver on every short pathname: a card with the default
\* props (lines 102-103) apart from initialView, startWithMagicLink and
\* disableRouting, whose host only changes the path or mounts it again
InitResolver ==
    /\ Init
    /\ props.emailPassword
    /\ ~props.magicLink
    /\ ~props.toast
    /\ props.LinkComponent = "DefaultLink"

NextResolver ==
    \/ FlushEffects
    \/ Remount
    \/ \E pn \in BoundedPaths : PathChange(pn)

SpecResolver == InitResolver /\ [][NextResolver]_vars

\* every operation, session ticks and submissions together, on a card
\* mounted on login with both providers and no magic-link start
InitFrame ==
    /\ Init
    /\ props.initialView = "login"
    /\ props.emailPassword
    /\ props.magicLink
    /\ ~props.startWithMagicLink

SpecFrame == InitFrame /\ [][Next]_vars

-----------------------------------------------------------------------------
(* Properties *)

\* C1 as stated: in every reachable state isMagicLink is false whenever the
\* active view is not login.
C1_MagicLinkOnlyOnLogin == view # "login" => ~isMagicLink

\* C1 as amended: isMagicLink is false whenever the active view is not login
\* in every state in which the view effect is not waiting to run; the commit
\* that shows a new view still shows the isMagicLink of the commit before.
C1_MagicLinkOnlyOnLoginAfterViewEffect ==
    "view" \notin pendingEffects => (view # "login" => ~isMagicLink)

\* a card mounted on signup with a magic-link start, after its effects ran
C1_Witness ==
    /\ Settled
    /\ props.initialView = "signup"
    /\ props.startWithMagicLink
    /\ view = "signup"
    /\ ~isMagicLink

\* the final "/"-separated segment of a string: what follows its last "/"
TrailingSegment(p) ==
    LET slashes == {i \in 1..Len(p) : p[i] = "/"}
        from == IF slashes = {} THEN 1
                ELSE (CHOOSE i \in slashes : \A j \in slashes : j <= i) + 1
    IN SubSeq(p, from, Len(p))

\* the view a pathname names, v when it names none
ResolvedView(pn, v) ==
    IF pn # None /\ \E name \in AuthView : TrailingSegment(pn[1]) = <<name>>
    THEN CHOOSE name \in AuthView : TrailingSegment(pn[1]) = <<name>>
    ELSE v

\* C2: whenever the effect of a host path change runs, the active view
\* becomes the view whose name is the final "/"-separated segment of the
\* path, and stays what it was when that segment is no view name.
C2_PathResolvesView ==
    [][(FlushEffects /\ "pathname" \in pendingEffects)
          => view' = ResolvedView(pathname, view)]_vars

\* a card mounted on login that a path showed logout, and that kept it on a
\* path whose last segment only starts with a view name
C2_Witness ==
    /\ Settled
    /\ props.initialView = "login"
    /\ view = "logout"
    /\ pathname = Some(<<"logout", "x">>)

\* C3: in every state between the start of a submission and the arrival of
\* its response, authToast is null.
C3_NoToastWhileAwaiting == requests # <<>> => authToast = None

\* a submission that has just cleared the error of the one before
C3_Witness ==
    /\ requests # <<>>
    /\ authToast = None
    /\ pendingEffects = {"toast"}

\* C4: at most one backend call is outstanding, and while one is, the
\* submit control is disabled, so that no second one can be issued.
C4_NoDoubleSubmit ==
    /\ Len(requests) <= 1
    /\ requests # <<>> => loading /\ SubmitDisabled /\ ~ENABLED Submit

\* a card awaiting its response, its form filled in and no effect pending
C4_Witness ==
    /\ Settled
    /\ Len(requests) = 1
    /\ email # ""
    /\ loading

Navigations(cs) == SelectSeq(cs, LAMBDA c : c.fn = "navigate")

\* C5: a new observation of a user who is not anonymous schedules the
\* session effect, and the step that runs it calls navigate exactly once,
\* with "/"; no other step calls navigate, and the effect calls nothing
\* while the observation is pending, absent or of an anonymous user.
C5_NavigateOncePerObservation ==
    [][/\ SessionData(session') # SessionData(session)
            => "session" \in pendingEffects'
       /\ Navigations(calls') =
             IF "session" \in pendingEffects /\ session.kind = "user"
             THEN <<[fn |-> "navigate", arg |-> <<"/">>]>>
             ELSE <<>>]_vars

\* the step after a second observation of a user has called navigate("/")
C5_Witness ==
    /\ session = [kind |-> "user", id |-> 1]
    /\ calls = <<[fn |-> "navigate", arg |-> <<"/">>]>>
    /\ Settled

\* C6: when the response to a submit arrives, loading is false and the
\* submit control enabled; authToast is {description: message, variant:
\* destructive} if the response has an error with a message and null if it
\* has no error or an error without message.
C6_ResponseSetsNotification ==
    [][\A o \in Outcomes :
          (o.kind # "rejected" /\ \E i \in 1..MaxRequests : Response(i, o))
          => /\ ~loading'
             /\ ~SubmitDisabled'
             /\ authToast' =
                   IF o.kind = "error" /\ o.message # ""
                   THEN <<[description |-> o.message,
                           variant |-> "destructive"]>>
                   ELSE <<>>]_vars

\* the error of a response shown, the submit control enabled again
C6_Witness ==
    /\ authToast = <<[description |-> "Invalid credentials",
                      variant |-> "destructive"]>>
    /\ ~SubmitDisabled
    /\ requests = <<>>
    /\ pendingEffects = {"toast"}

\* C7: with disableRouting the click on the footer control sets the view to
\* signup on login and to login on signup, and calls no navigate.
C7_ToggleSwapsWithoutNavigation ==
    [][ToggleButton
          => /\ props.disableRouting
             /\ view = "login" => view' = "signup"
             /\ view = "signup" => view' = "login"
             /\ Navigations(calls') = <<>>]_vars

\* a card on login without a pathname, just toggled to signup by the click
C7_Witness ==
    /\ props.disableRouting
    /\ props.initialView = "login"
    /\ pathname = None
    /\ view = "signup"
    /\ pendingEffects = {"view"}
    /\ calls = <<>>

\* the href of the cross-link: the login path from signup, the signup path
\* from any other view
CrossLinkTarget(v) ==
    IF v = "signup" THEN <<"/", "auth", "/", "login">>
    ELSE <<"/", "auth", "/", "signup">>

\* C8: with routing enabled the click on the footer control calls navigate
\* with the fixed path of the direction, the signup path from login and the
\* login path from signup, and writes no view (stated for the link
\* component of lines 27-33).
C8_ToggleCallsNavigate ==
    [][(ToggleLink /\ props.LinkComponent = "DefaultLink")
          => /\ Len(calls') = 1
             /\ calls'[1] = [fn |-> "navigate", arg |-> CrossLinkTarget(view)]
             /\ view' = view]_vars

\* C9: in no reachable state is an error notification present while a
\* submission is in flight.
C9_NoErrorWhileLoading ==
    ~(authToast # None /\ authToast[1].variant = "destructive" /\ loading)

\* an error shown on a view the card was not mounted on, nothing in flight
C9_Witness ==
    /\ authToast # None
    /\ ~loading
    /\ view # props.initialView
    /\ Settled

\* C10: with emailPassword false, a mount starts with isMagicLink true
\* whatever startWithMagicLink is, the password field is disabled while
\* isMagicLink is true, and the password-provider button is never enabled.
C10_PasswordLoginDisabled ==
    ~props.emailPassword
       => /\ pendingEffects = AllEffects => isMagicLink
          /\ isMagicLink => PasswordInputDisabled /\ ~ENABLED (\E v \in Passwords : EditPassword(v))
          /\ PasswordButtonDisabled
          /\ ~ENABLED DisableMagicLink

\* a card on login without password login and without a magic-link start,
\* in magic-link mode after its effects ran
C10_Witness ==
    /\ ~props.emailPassword
    /\ ~props.startWithMagicLink
    /\ view = "login"
    /\ isMagicLink
    /\ Settled

Toasts(cs) == SelectSeq(cs, LAMBDA c : c.fn = "toast")

\* C11 as stated: with a toast sink, the effect that follows every change of
\* authToast calls the sink (and nothing is rendered inline).
C11_EveryChangeForwarded ==
    [][(pendingEffects = {"toast"} /\ props.toast)
          => Len(Toasts(calls')) = 1 /\ ~InlineAlertRendered]_vars

\* C11 as amended: the channel is fixed by the toast prop.  With a sink the
\* alert is not rendered inline, and every change of authToast to a
\* notification is forwarded to the sink once, with its description and
\* variant; a change to null (the clearing at the start of a submit) is not
\* forwarded.  Without a sink the alert is rendered inline and the sink is
\* never called.
C11_OneChannel ==
    [][/\ InlineAlertRendered <=> ~props.toast
       /\ InlineAlertShown => ~props.toast
       /\ authToast' # authToast => "toast" \in pendingEffects'
       /\ Toasts(calls') =
             IF "toast" \in pendingEffects /\ props.toast /\ authToast # <<>>
             THEN <<[fn |-> "toast",
                     arg |-> <<authToast[1].description, "destructive">>]>>
             ELSE <<>>]_vars

\* the error of a response just forwarded to the sink of a card that renders
\* no inline alert
C11_Witness ==
    /\ props.toast
    /\ ~InlineAlertRendered
    /\ calls = <<[fn |-> "toast",
                  arg |-> <<"Invalid credentials", "destructive">>]>>

\* C12: a submit issues exactly one backend request, with the current email,
\* and with the password only when isMagicLink is false: a submit in
\* magic-link mode does not send the stored password.
C12_PasswordOnlyInPasswordMode ==
    \A i \in DOMAIN calls :
        calls[i].fn = "signIn.email"
           => /\ Len(calls) = 1
              /\ calls[i].arg[1] = email
              /\ isMagicLink => calls[i].arg[2] = ""

\* C13: with disableRouting set, or without a host path, the effect of a
\* path change (and of a mount) leaves the active view as it is: the view
\* changes only by the user's toggles.
C13_RoutingDisabledBypassesResolver ==
    [][(FlushEffects /\ (props.disableRouting \/ pathname = None))
          => view' = view]_vars

\* C14 as stated: the click on the footer control swaps login and signup
\* and leaves forgot-password, reset-password and logout as they are.
C14_ToggleOnlyBetweenLoginAndSignup ==
    [][ToggleButton
          => view' = IF view = "login" THEN "signup"
                     ELSE IF view = "signup" THEN "login" ELSE view]_vars

\* C14 as amended: the footer control is there on every view; from signup
\* it leads to login and from every other view, forgot-password,
\* reset-password and logout included, to signup: as the new view with
\* disableRouting and with a link component that runs the click handler, as
\* the path the link leads to with the default link and with a router's
\* link.  An anchor that passes its props on leads to that path or to the
\* path the card shows for the view the click has set.
C14_ToggleFromEveryView ==
    [][/\ (Settled /\ props.disableRouting) => ENABLED ToggleButton
       /\ (Settled /\ ~props.disableRouting) => ENABLED ToggleLink
       /\ ToggleButton
             => view' = IF view = "signup" THEN "login" ELSE "signup"
       /\ (ToggleLink /\ props.LinkComponent # "DefaultLink")
             => view' = IF view = "signup" THEN "login" ELSE "signup"
       /\ (ToggleLink /\ props.LinkComponent # "ForwardingLink")
             => calls'[1].arg = IF view = "signup"
                                THEN <<"/", "auth", "/", "login">>
                                ELSE <<"/", "auth", "/", "signup">>
       /\ (ToggleLink /\ props.LinkComponent = "ForwardingLink")
             => calls'[1].arg \in
                   {IF w = "signup" THEN <<"/", "auth", "/", "login">>
                                    ELSE <<"/", "auth", "/", "signup">> :
                    w \in {view, view'}}]_vars

\* a card mounted on forgot-password without a pathname, just toggled to
\* signup by the click
C14_Witness ==
    /\ props.disableRouting
    /\ props.initialView = "forgot-password"
    /\ pathname = None
    /\ session.kind = "pending"
    /\ view = "signup"
    /\ ~isMagicLink
    /\ pendingEffects = {"view"}

\* C15: a step that sets a notification is the completion of the one
\* outstanding submission, and the state it yields has loading false: in no
\* state is the error of a submission present while the loading that this
\* submission set is still true or its call still outstanding.
C15_NotificationAfterLoadingCleared ==
    [][/\ (authToast' # <<>> /\ authToast' # authToast)
            => /\ Len(requests) = 1
               /\ loading
               /\ requests' = <<>>
               /\ ~loading'
       /\ authToast # <<>> => ~loading /\ requests = <<>>]_vars

\* the error of a submission that carried a password, just set, loading
\* cleared and the toast effect not yet run
C15_Witness ==
    /\ authToast # None
    /\ ~loading
    /\ requests = <<>>
    /\ password = "x"
    /\ ~isMagicLink
    /\ pendingEffects = {"toast"}

\* C16: once the backend call of a submission has completed, with a result,
\* an error result or a failure, loading is false and the submit control is
\* enabled again: no state has loading true with no call outstanding.
C16_LoadingEndsWithTheCall ==
    requests = <<>> => ~loading /\ ~SubmitDisabled

\* C17: the magic-link button is enabled (and its click possible) only on
\* login with magicLink set and isMagicLink false, the password button only
\* on login with emailPassword set and isMagicLink true; the two are never
\* both enabled, and neither is on a view other than login.
C17_MagicLinkTogglesGuarded ==
    /\ (~MagicLinkButtonDisabled \/ ENABLED EnableMagicLink)
          => view = "login" /\ props.magicLink /\ ~isMagicLink
    /\ (~PasswordButtonDisabled \/ ENABLED DisableMagicLink)
          => view = "login" /\ props.emailPassword /\ isMagicLink
    /\ ~(~MagicLinkButtonDisabled /\ ~PasswordButtonDisabled)
    /\ view # "login" => MagicLinkButtonDisabled /\ PasswordButtonDisabled

\* a card with both providers, switched to magic-link mode by the click: the
\* password button is enabled and the magic-link button is not
C17_Witness ==
    /\ Settled
    /\ props.magicLink
    /\ props.emailPassword
    /\ ~props.startWithMagicLink
    /\ view = "login"
    /\ isMagicLink
    /\ ~PasswordButtonDisabled
    /\ MagicLinkButtonDisabled

\* C18: with emailPassword false, isMagicLink is true in every reachable
\* state whose view is login, also after the view has left login and come
\* back.  Stated for the cards with the default link component.
C18_NoPasswordModeWithoutPasswordLogin ==
    (/\ props.LinkComponent = "DefaultLink"
     /\ ~props.emailPassword
     /\ view = "login") => isMagicLink

\* C19: path changes, the login/signup toggle, the magic-link toggles, field
\* edits, session ticks and the effects leave loading and authToast as they
\* are; only a submit and its response (and a new mount) write them; and a
\* response with an error message clears loading and records the error on
\* whatever view it arrives.
C19_OnlySubmitWritesNotificationAndLoading ==
    [][/\ (\/ \E pn \in HostPaths : PathChange(pn)
           \/ ToggleButton
           \/ ToggleLink
           \/ EnableMagicLink
           \/ DisableMagicLink
           \/ \E v \in Emails : EditEmail(v)
           \/ \E v \in Passwords : EditPassword(v)
           \/ \E k \in SessionKinds : SessionTick(k)
           \/ FlushEffects)
            => UNCHANGED <<loading, authToast, requests>>
       /\ (loading' # loading \/ authToast' # authToast)
            => \/ Submit
               \/ \E i \in 1..MaxRequests, o \in Outcomes : Response(i, o)
               \/ Remount
       /\ \A m \in ErrorMessages :
             (\E i \in 1..MaxRequests :
                 Response(i, [kind |-> "error", message |-> m]))
             => /\ ~loading'
                /\ authToast' = <<[description |-> m,
                                   variant |-> "destructive"]>>]_vars

\* an error still shown, after its effects ran, on a view the card was not
\* mounted on and that no toggle leads to
C19_Witness ==
    /\ Settled
    /\ props.initialView = "login"
    /\ view = "forgot-password"
    /\ authToast # None
    /\ ~loading
    /\ calls = <<>>

====
